---- MODULE Spec2Model ----
(***************************************************************************)
(* Protein-Api-Server: the annotation pipeline of lib.js (fragmenter,      *)
(* structure classifier, motif scanner, createProteinWithFragments) and    *)
(* the routes of app.js that drive it, over a PostgreSQL connection pool.  *)
(*                                                                         *)
(* A residue is a one-character string, a sequence a tuple of residues.    *)
(* JavaScript offsets are 0-based; TLA+ tuples are 1-based, so that the    *)
(* residue at JavaScript offset i is seq[i + 1].                           *)
(***************************************************************************)
EXTENDS Integers, Sequences, FiniteSets, TLC

(***************************************************************************)
(* Bounds of the model.                                                    *)
(***************************************************************************)
\* Largest connection pool a behaviour is given (pg's default max is 10).
MaxPool == 2
\* Number of GET /api/proteins/:proteinId/fragments requests of a behaviour.
MaxReads == 1
\* Number of PUT /api/proteins/:proteinId requests of a behaviour.
MaxPuts == 1

(***************************************************************************)
(* Program constants.                                                      *)
(***************************************************************************)
windowSize == 15
stepSize == 5
MinSequenceLength == 20
MaxSequenceLength == 2000
MaxNameLength == 100
MaxDescriptionLength == 1000
\* The value Math.floor(Date.now()/1000) of generateProteinName.
Timestep == 1700000000

NULL == <<>>

\* The character class of /^[ACDEFGHIKLMNPQRSTVWY]+$/ (the keys of propensities).
Alphabet ==
    {"A", "C", "D", "E", "F", "G", "H", "I", "K", "L",
     "M", "N", "P", "Q", "R", "S", "T", "V", "W", "Y"}

\* The propensity table, in hundredths.
propensities ==
    [aa \in Alphabet |->
        CASE aa = "A" -> [H |-> 142, E |-> 83,  C |-> 80]
          [] aa = "R" -> [H |-> 121, E |-> 84,  C |-> 96]
          [] aa = "N" -> [H |-> 67,  E |-> 89,  C |-> 134]
          [] aa = "D" -> [H |-> 101, E |-> 54,  C |-> 135]
          [] aa = "C" -> [H |-> 70,  E |-> 119, C |-> 106]
          [] aa = "Q" -> [H |-> 111, E |-> 110, C |-> 84]
          [] aa = "E" -> [H |-> 151, E |-> 37,  C |-> 108]
          [] aa = "G" -> [H |-> 57,  E |-> 75,  C |-> 156]
          [] aa = "H" -> [H |-> 100, E |-> 87,  C |-> 109]
          [] aa = "I" -> [H |-> 108, E |-> 160, C |-> 47]
          [] aa = "L" -> [H |-> 121, E |-> 130, C |-> 59]
          [] aa = "K" -> [H |-> 116, E |-> 74,  C |-> 107]
          [] aa = "M" -> [H |-> 145, E |-> 105, C |-> 60]
          [] aa = "F" -> [H |-> 113, E |-> 138, C |-> 59]
          [] aa = "P" -> [H |-> 57,  E |-> 55,  C |-> 172]
          [] aa = "S" -> [H |-> 77,  E |-> 75,  C |-> 139]
          [] aa = "T" -> [H |-> 83,  E |-> 119, C |-> 96]
          [] aa = "W" -> [H |-> 108, E |-> 137, C |-> 64]
          [] aa = "Y" -> [H |-> 69,  E |-> 147, C |-> 87]
          [] aa = "V" -> [H |-> 106, E |-> 170, C |-> 41]]

(***************************************************************************)
(* The sequences handed to the program.                                    *)
(***************************************************************************)
\* README's example: 20 residues, no motif.
SeqExample ==
    <<"A", "C", "D", "E", "F", "G", "H", "I", "K", "L",
      "M", "N", "P", "Q", "R", "S", "T", "V", "W", "Y">>
\* 21 residues; "SKADEAKD" at offsets 7..14: a casein kinase II site and two
\* tyrosine kinase sites inside both windows [0,15) and [5,20).
SeqMotif ==
    <<"A", "A", "A", "A", "A", "A", "A", "S", "K", "A",
      "D", "E", "A", "K", "D", "A", "A", "A", "A", "A", "A">>
\* 16 residues (below the routes' minimum), an N-glycosylation site at 0.
SeqSixteen ==
    <<"N", "G", "S", "A", "A", "A", "A", "A", "A", "A",
      "A", "A", "A", "A", "A", "A">>
\* 14 residues: shorter than one window.
SeqShort ==
    <<"A", "C", "D", "E", "F", "G", "H", "I", "K", "L", "M", "N", "P", "Q">>
\* 20 residues, "X" at offset 17: outside window [0,15), inside window [5,20).
SeqBadSymbol ==
    <<"A", "C", "D", "E", "F", "G", "H", "I", "K", "L",
      "M", "N", "P", "Q", "R", "S", "T", "X", "W", "Y">>
\* 21 residues, "X" at offset 20: inside no window.
SeqBadTail ==
    <<"A", "C", "D", "E", "F", "G", "H", "I", "K", "L",
      "M", "N", "P", "Q", "R", "S", "T", "V", "W", "Y", "X">>
\* 16 residues with two N-glycosylation sites, at offsets 0 and 4.
SeqTwice ==
    <<"N", "G", "S", "A", "N", "G", "S", "A", "A", "A",
      "A", "A", "A", "A", "A", "A">>
\* 2001 residues: one more than the routes accept.
SeqTooLong == [i \in 1..(MaxSequenceLength + 1) |-> "A"]

InputNames ==
    {"example", "motif", "sixteen", "short", "badsymbol", "badtail", "toolong"}

SeqOf(name) ==
    CASE name = "example"   -> SeqExample
      [] name = "motif"     -> SeqMotif
      [] name = "sixteen"   -> SeqSixteen
      [] name = "short"     -> SeqShort
      [] name = "badsymbol" -> SeqBadSymbol
      [] name = "badtail"   -> SeqBadTail
      [] name = "toolong"   -> SeqTooLong
      [] name = "twice"     -> SeqTwice

(***************************************************************************)
(* Pure functions of lib.js.                                               *)
(***************************************************************************)
\* String.prototype.slice(from, to) for 0 <= from <= to.
Slice(seq, from, to) ==
    LET last == IF to > Len(seq) THEN Len(seq) ELSE to
    IN  IF from >= last THEN <<>> ELSE SubSeq(seq, from + 1, last)

\* A variant of LabelOf that compares strand with coil first.
LabelOf_StrandFirst(aa) ==
    IF aa \notin Alphabet THEN "TypeError"
    ELSE LET p == propensities[aa]
         IN  IF p.E > p.C THEN "E"
             ELSE IF p.H > p.E /\ p.H > p.C THEN "H"
             ELSE "C"

\* A variant of LabelOf that gives an unknown residue the label "C" instead
\* of throwing.
LabelOf_Defaulting(aa) ==
    IF aa \notin Alphabet THEN "C"
    ELSE LET p == propensities[aa]
         IN  IF p.H > p.E /\ p.H > p.C THEN "H"
             ELSE IF p.E > p.C THEN "E"
             ELSE "C"

\* The label predictSecondaryStructure gives one residue.  propensities[aa]
\* is undefined outside the alphabet, and destructuring undefined throws a
\* TypeError.
LabelOf(aa) ==
    IF aa \notin Alphabet THEN "TypeError"
    ELSE LET p == propensities[aa]
         IN  IF p.H > p.E /\ p.H > p.C THEN "H"
             ELSE IF p.E > p.C THEN "E"
             ELSE "C"

\* predictSecondaryStructure(sequence) throws.
Throws(sequence) == \E k \in 1..Len(sequence) : LabelOf(sequence[k]) = "TypeError"

\* A variant of predictSecondaryStructure that labels all residues but the last.
predictSecondaryStructure_Short(sequence) ==
    [k \in 1..(Len(sequence) - 1) |-> LabelOf(sequence[k])]

predictSecondaryStructure(sequence) ==
    [k \in 1..Len(sequence) |-> LabelOf(sequence[k])]

\* A variant of ConfidenceOf that subtracts the smallest score, not the second.
ConfidenceOf_Spread(aa) ==
    LET p == propensities[aa]
        vals == {p.H, p.E, p.C}
        maxi == CHOOSE v \in vals : \A w \in vals : w <= v
        mini == CHOOSE v \in vals : \A w \in vals : v <= w
    IN  maxi - mini

ConfidenceOf(aa) ==
    LET p == propensities[aa]
        vals == {p.H, p.E, p.C}
        maxi == CHOOSE v \in vals : \A w \in vals : w <= v
        \* the second element of the descending sort (equal to maxi on a tie)
        second_maxi ==
            IF Cardinality({f \in {"H", "E", "C"} : p[f] = maxi}) > 1 THEN maxi
            ELSE CHOOSE v \in vals \ {maxi} : \A w \in vals \ {maxi} : w <= v
    IN  maxi - second_maxi

calculateConfidenceScore(sequence) ==
    [k \in 1..Len(sequence) |-> ConfidenceOf(sequence[k])]

RECURSIVE SumSeq(_)
SumSeq(s) == IF s = <<>> THEN 0 ELSE s[1] + SumSeq(Tail(s))

(***************************************************************************)
(* The motif catalog of identifyMotifs, in the order of Object.entries.    *)
(***************************************************************************)
motifs ==
    << [name |-> "N-glycosylation site",
        type |-> "N-glycosylation"],
       [name |-> "Casein kinase II phosphorylation site",
        type |-> "Casein kinase II"],
       [name |-> "Tyrosine kinase phosphorylation site",
        type |-> "Tyrosine kinase"] >>

\* The length of the match of pattern p that starts at offset j (0-based) of
\* fragment f, 0 when there is none.
\*   1: /N[^P][ST][^P]/   2: /[ST].{2}[DE]/   3: /[RK].{0,2}[DE]/ (greedy gap)
MatchLenAt(p, f, j) ==
    LET at(o) == f[j + o + 1]
        has(o) == j + o + 1 <= Len(f)
    IN  CASE p = 1 ->
               IF has(3) /\ at(0) = "N" /\ at(1) # "P"
                  /\ at(2) \in {"S", "T"} /\ at(3) # "P" THEN 4 ELSE 0
          [] p = 2 ->
               IF has(3) /\ at(0) \in {"S", "T"} /\ at(3) \in {"D", "E"}
               THEN 4 ELSE 0
          [] p = 3 ->
               IF ~(has(0) /\ at(0) \in {"R", "K"}) THEN 0
               ELSE IF has(3) /\ at(3) \in {"D", "E"} THEN 4
               ELSE IF has(2) /\ at(2) \in {"D", "E"} THEN 3
               ELSE IF has(1) /\ at(1) \in {"D", "E"} THEN 2
               ELSE 0

\* A variant of Exec that returns the last occurrence instead of the first.
Exec_Last(p, f) ==
    LET hits == {j \in 0..(Len(f) - 1) : MatchLenAt(p, f, j) > 0}
    IN  IF hits = {} THEN NULL
        ELSE LET j == CHOOSE h \in hits : \A g \in hits : h >= g
             IN  [index |-> j, length |-> MatchLenAt(p, f, j)]

\* pattern.exec(fragment) on a fresh regular expression (lastIndex 0): the
\* leftmost match, as [index, length], or NULL.
Exec(p, f) ==
    LET hits == {j \in 0..(Len(f) - 1) : MatchLenAt(p, f, j) > 0}
    IN  IF hits = {} THEN NULL
        ELSE LET j == CHOOSE h \in hits : \A g \in hits : h <= g
             IN  [index |-> j, length |-> MatchLenAt(p, f, j)]

\* calculateMolecularWeight, in hundredths; molecularWeights[aa] is undefined
\* outside the alphabet and the sum is then NaN.
molecularWeights ==
    [aa \in Alphabet |->
        CASE aa = "A" -> 8909   [] aa = "R" -> 17420  [] aa = "N" -> 13212
          [] aa = "D" -> 13310  [] aa = "C" -> 12116  [] aa = "E" -> 14713
          [] aa = "Q" -> 14615  [] aa = "G" -> 7507   [] aa = "H" -> 15516
          [] aa = "I" -> 13117  [] aa = "L" -> 13117  [] aa = "K" -> 14619
          [] aa = "M" -> 14921  [] aa = "F" -> 16519  [] aa = "P" -> 11513
          [] aa = "S" -> 10509  [] aa = "T" -> 11912  [] aa = "W" -> 20423
          [] aa = "Y" -> 18119  [] aa = "V" -> 11715]

RECURSIVE WeightSum(_)
WeightSum(s) ==
    IF s = <<>> THEN 0 ELSE molecularWeights[s[1]] + WeightSum(Tail(s))

calculateMolecularWeight(sequence) ==
    IF \E k \in 1..Len(sequence) : sequence[k] \notin DOMAIN molecularWeights
    THEN "NaN"
    ELSE WeightSum(sequence)

\* `Protein_${sequence.slice(0, 8)}_${timestep}`
generateProteinName(sequence) ==
    <<"Protein_">> \o Slice(sequence, 0, 8) \o <<"_", Timestep>>

(***************************************************************************)
(* State.                                                                  *)
(***************************************************************************)
VARIABLES
    poolMax,   \* the pool's max: how many clients it may open
    created,   \* clients opened so far; they are 1..created
    idle,      \* the pool's idle clients; the last one is handed out first
    conn,      \* per client, its PostgreSQL session: open transaction and its writes
    db,        \* the committed rows of proteins, fragments and motifs
    nextId,    \* the serial sequences of the three tables
    active,    \* the annotation runs of this behaviour
    run,       \* per run: where createProteinWithFragments stands, and its result
    reader,    \* the GET /api/proteins/:proteinId/fragments request in progress
    reads,     \* GET requests started so far
    put,       \* the PUT /api/proteins/:proteinId request in progress
    puts,      \* PUT requests started so far
    download,  \* the GET /api/proteins/:proteinId/download request in progress
    listing    \* the GET /api/proteins request in progress

vars == <<poolMax, created, idle, conn, db, nextId, active, run, reader, reads,
         put, puts, download, listing>>

Conns == 1..MaxPool
RunIds == {1, 2}

NoRows == [proteins |-> {}, fragments |-> {}, motifs |-> {}]
Tables == {"proteins", "fragments", "motifs"}

KeyOf(table, row) ==
    CASE table = "proteins"  -> row.protein_id
      [] table = "fragments" -> row.fragment_id
      [] table = "motifs"    -> row.motif_id

\* Rows `over` laid over rows `base`: a row of `over` replaces the row of
\* `base` with its key.
Overlay(table, over, base) ==
    over \cup {b \in base : \A o \in over : KeyOf(table, o) # KeyOf(table, b)}

(***************************************************************************)
(* The pool (app.js: new Pool) and pool.query.  pool.query takes an idle   *)
(* client, or opens one while fewer than max exist, runs the one statement *)
(* on it and releases it; it waits while neither is possible.              *)
(***************************************************************************)
Acquirable ==
    IF idle # <<>> THEN {idle[Len(idle)]}
    ELSE IF created < poolMax THEN {created + 1}
    ELSE {}

\* The pool after a client was taken (the idle one popped, or a new one opened).
IdleAfterTake(c) == IF idle # <<>> THEN SubSeq(idle, 1, Len(idle) - 1) ELSE idle
CreatedAfterTake(c) == IF c > created THEN c ELSE created

(***************************************************************************)
(* One statement on session c (PostgreSQL, READ COMMITTED).  Outside a     *)
(* transaction block a statement commits by itself; inside one its writes  *)
(* stay with the session until COMMIT.                                     *)
(***************************************************************************)
\* The rows a statement on session c reads.
Visible(c) ==
    IF conn[c].inTx
    THEN [t \in Tables |-> Overlay(t, conn[c].pending[t], db[t])]
    ELSE db

\* A statement fails when the store fails it (ok = FALSE) or when the
\* session's transaction is already aborted by an earlier error.
Fails(c, ok) == ~ok \/ conn[c].aborted

\* A failed statement writes nothing and aborts the session's transaction.
AfterError(c) == [conn EXCEPT ![c].aborted = conn[c].inTx]

\* Insert or replace `row` of `table` through session c.
ConnAfterWrite(c, table, row) ==
    IF conn[c].inTx
    THEN [conn EXCEPT ![c].pending[table] = Overlay(table, {row}, @)]
    ELSE conn
DbAfterWrite(c, table, row) ==
    IF conn[c].inTx THEN db
    ELSE [db EXCEPT ![table] = Overlay(table, {row}, @)]

\* BEGIN: opens a transaction block; a warning and no effect inside one.
ConnAfterBegin(c) == [conn EXCEPT ![c].inTx = TRUE]

\* COMMIT: makes the session's writes durable; in an aborted transaction it
\* rolls back instead (and still succeeds); a warning outside a block.
ConnAfterEnd(c) ==
    [conn EXCEPT ![c] = [inTx |-> FALSE, aborted |-> FALSE, pending |-> NoRows]]
DbAfterCommit(c) ==
    IF conn[c].inTx /\ ~conn[c].aborted THEN Visible(c) ELSE db

\* The foreign keys fragments.protein_id and motifs.fragment_id: the parent
\* row must be visible to the inserting session.
ParentVisible(c, table, id) ==
    \E row \in Visible(c)[table] : KeyOf(table, row) = id

(***************************************************************************)
(* createProteinWithFragments, fragmentAndStoreSequence and identifyMotifs *)
(* (lib.js).  A run stands at the statement it awaits next (pc); one       *)
(* action is one pool.query together with the synchronous code up to the   *)
(* next await.                                                             *)
(***************************************************************************)
IdleRun ==
    [pc |-> "idle", entry |-> "none", input |-> "none", name |-> <<>>,
     description |-> <<>>, protein_id |-> 0, created_at |-> 0,
     updated_at |-> 0,
     i |-> 0, fragmentId |-> 0, m |-> 0,
     outcome |-> "none", returned |-> NULL, status |-> 0, log |-> <<>>]

Sequence(r) == SeqOf(run[r].input)
Fragment(r) == Slice(Sequence(r), run[r].i, run[r].i + windowSize)

sequenceUrlOf(protein_id) == <<"http://localhost:3000/api/proteins/", protein_id, "/download">>
fragmentUrlOf(fragmentId) == <<"http://localhost:3000/api/fragments/", fragmentId>>
toISOString(date) == <<"ISO", date>>

\* A variant of LoopPoint whose loop condition is i < sequence.length -
\* windowSize, one window short.
LoopPoint_OffByOne(sequence, i) ==
    IF i < Len(sequence) - windowSize
    THEN IF Throws(Slice(sequence, i, i + windowSize)) THEN "ROLLBACK"
         ELSE "INSERT_FRAGMENT"
    ELSE "COMMIT"

\* The loop head of fragmentAndStoreSequence at offset i: the next fragment
\* insert, or COMMIT after the loop, or ROLLBACK when predictSecondaryStructure
\* throws on the fragment.
LoopPoint(sequence, i) ==
    IF i < Len(sequence) - windowSize + 1
    THEN IF Throws(Slice(sequence, i, i + windowSize)) THEN "ROLLBACK"
         ELSE "INSERT_FRAGMENT"
    ELSE "COMMIT"

\* The first catalog pattern from `from` on that matches the fragment, 0 if none.
NextMotif(fragment, from) ==
    LET hits == {p \in from..Len(motifs) : Exec(p, fragment) # NULL}
    IN  IF hits = {} THEN 0 ELSE CHOOSE p \in hits : \A q \in hits : p <= q

\* A variant of Advance whose loop steps by windowSize, leaving no overlap
\* between windows.
Advance_ByWindow(rec, from) ==
    LET sequence == SeqOf(rec.input)
        p == NextMotif(Slice(sequence, rec.i, rec.i + windowSize), from)
    IN  IF p # 0 THEN [rec EXCEPT !.pc = "INSERT_MOTIF", !.m = p]
        ELSE [rec EXCEPT !.pc = LoopPoint(sequence, rec.i + windowSize),
                         !.i = rec.i + windowSize, !.m = 0]

\* The run after the statements of a fragment up to pattern from - 1 are
\* done: at the next motif insert of the fragment, else at the loop head of
\* the next window.
Advance(rec, from) ==
    LET sequence == SeqOf(rec.input)
        p == NextMotif(Slice(sequence, rec.i, rec.i + windowSize), from)
    IN  IF p # 0 THEN [rec EXCEPT !.pc = "INSERT_MOTIF", !.m = p]
        ELSE [rec EXCEPT !.pc = LoopPoint(sequence, rec.i + stepSize),
                         !.i = rec.i + stepSize, !.m = 0]

\* The run's statements so far: the client each ran on, whether it succeeded
\* and, for an insert, the row it wrote.
Logged(rec, op, c, ok, row) ==
    [rec EXCEPT !.log = Append(@, [op |-> op, conn |-> c, ok |-> ok, row |-> row])]
NoRow == [none |-> TRUE]

\* A variant of Caught that throws the aggregate error without a ROLLBACK.
Caught_NoRollback(rec) == [rec EXCEPT !.pc = "done", !.outcome = "Error"]

\* Any rejected statement of the try block lands in the catch block, whose
\* first statement is the ROLLBACK.
Caught(rec) == [rec EXCEPT !.pc = "ROLLBACK"]

\* pool.query of a run: on the client the pool hands out, released after it.
PoolQuery(c) ==
    /\ c \in Acquirable
    /\ idle' = Append(IdleAfterTake(c), c)
    /\ created' = CreatedAfterTake(c)

Begin ==
    \E r \in active :
    /\ run[r].pc = "BEGIN"
    /\ \E c \in Acquirable, ok \in BOOLEAN :
          /\ PoolQuery(c)
          /\ IF ~Fails(c, ok)
             THEN /\ conn' = ConnAfterBegin(c)
                  /\ run' = [run EXCEPT ![r] =
                        [Logged(@, "BEGIN", c, TRUE, NoRow) EXCEPT !.pc = "INSERT_PROTEIN"]]
             ELSE /\ conn' = AfterError(c)
                  /\ run' = [run EXCEPT ![r] = Caught(Logged(@, "BEGIN", c, FALSE, NoRow))]
    /\ UNCHANGED <<poolMax, download, listing, put, puts, db, nextId, active, reader, reads>>

ProteinRow(r, id) ==
    [protein_id |-> id,
     name |-> run[r].name,
     description |-> run[r].description,
     molecular_weight |-> calculateMolecularWeight(Sequence(r)),
     sequence_length |-> Len(Sequence(r)),
     created_at |-> id,
     updated_at |-> id,
     sequence_url |-> NULL]

InsertProtein ==
    \E r \in active :
    /\ run[r].pc = "INSERT_PROTEIN"
    /\ \E c \in Acquirable, ok \in BOOLEAN :
          /\ PoolQuery(c)
          /\ IF ~Fails(c, ok)
             THEN LET id == nextId.proteins
                      row == ProteinRow(r, id)
                  IN  /\ conn' = ConnAfterWrite(c, "proteins", row)
                      /\ db' = DbAfterWrite(c, "proteins", row)
                      /\ nextId' = [nextId EXCEPT !.proteins = id + 1]
                      /\ run' = [run EXCEPT ![r] =
                            [Logged(@, "INSERT_PROTEIN", c, TRUE, row) EXCEPT
                                !.pc = "UPDATE_PROTEIN",
                                !.protein_id = id,
                                !.created_at = row.created_at,
                                !.updated_at = row.updated_at]]
             ELSE /\ conn' = AfterError(c)
                  /\ run' = [run EXCEPT ![r] =
                        Caught(Logged(@, "INSERT_PROTEIN", c, FALSE, NoRow))]
                  /\ UNCHANGED <<db, nextId>>
    /\ UNCHANGED <<poolMax, download, listing, put, puts, active, reader, reads>>

\* UPDATE proteins SET sequence_url = $1 WHERE protein_id = $2: changes the
\* rows the session sees, none when it sees no such row (and succeeds).
UpdateProteinUrl ==
    \E r \in active :
    /\ run[r].pc = "UPDATE_PROTEIN"
    /\ \E c \in Acquirable, ok \in BOOLEAN :
          /\ PoolQuery(c)
          /\ IF ~Fails(c, ok)
             THEN LET hit == {p \in Visible(c).proteins :
                                 p.protein_id = run[r].protein_id}
                  IN  /\ IF hit = {} THEN UNCHANGED <<conn, db>>
                         ELSE LET old == CHOOSE p \in hit : TRUE
                                  row == [old EXCEPT !.sequence_url =
                                            sequenceUrlOf(run[r].protein_id)]
                              IN  /\ conn' = ConnAfterWrite(c, "proteins", row)
                                  /\ db' = DbAfterWrite(c, "proteins", row)
                      /\ run' = [run EXCEPT ![r] =
                            [Logged(@, "UPDATE_PROTEIN", c, TRUE, NoRow) EXCEPT
                                !.pc = LoopPoint(Sequence(r), 0), !.i = 0]]
             ELSE /\ conn' = AfterError(c)
                  /\ run' = [run EXCEPT ![r] =
                        Caught(Logged(@, "UPDATE_PROTEIN", c, FALSE, NoRow))]
                  /\ UNCHANGED db
    /\ UNCHANGED <<poolMax, download, listing, put, puts, nextId, active, reader, reads>>

FragmentRow(r, id) ==
    [fragment_id |-> id,
     protein_id |-> run[r].protein_id,
     sequence |-> Fragment(r),
     start_position |-> run[r].i,
     end_position |-> run[r].i + windowSize,
     secondary_structure |-> predictSecondaryStructure(Fragment(r)),
     url |-> NULL]

InsertFragment ==
    \E r \in active :
    /\ run[r].pc = "INSERT_FRAGMENT"
    /\ \E c \in Acquirable, ok \in BOOLEAN :
          /\ PoolQuery(c)
          /\ IF ~Fails(c, ok) /\ ParentVisible(c, "proteins", run[r].protein_id)
             THEN LET id == nextId.fragments
                      row == FragmentRow(r, id)
                  IN  /\ conn' = ConnAfterWrite(c, "fragments", row)
                      /\ db' = DbAfterWrite(c, "fragments", row)
                      /\ nextId' = [nextId EXCEPT !.fragments = id + 1]
                      /\ run' = [run EXCEPT ![r] =
                            [Logged(@, "INSERT_FRAGMENT", c, TRUE, row) EXCEPT
                                !.pc = "UPDATE_FRAGMENT", !.fragmentId = id]]
             ELSE /\ conn' = AfterError(c)
                  /\ run' = [run EXCEPT ![r] =
                        Caught(Logged(@, "INSERT_FRAGMENT", c, FALSE, NoRow))]
                  /\ UNCHANGED <<db, nextId>>
    /\ UNCHANGED <<poolMax, download, listing, put, puts, active, reader, reads>>

UpdateFragmentUrl ==
    \E r \in active :
    /\ run[r].pc = "UPDATE_FRAGMENT"
    /\ \E c \in Acquirable, ok \in BOOLEAN :
          /\ PoolQuery(c)
          /\ IF ~Fails(c, ok)
             THEN LET hit == {f \in Visible(c).fragments :
                                 f.fragment_id = run[r].fragmentId}
                  IN  /\ IF hit = {} THEN UNCHANGED <<conn, db>>
                         ELSE LET old == CHOOSE f \in hit : TRUE
                                  row == [old EXCEPT !.url =
                                            fragmentUrlOf(run[r].fragmentId)]
                              IN  /\ conn' = ConnAfterWrite(c, "fragments", row)
                                  /\ db' = DbAfterWrite(c, "fragments", row)
                      /\ run' = [run EXCEPT ![r] =
                            Advance(Logged(@, "UPDATE_FRAGMENT", c, TRUE, NoRow), 1)]
             ELSE /\ conn' = AfterError(c)
                  /\ run' = [run EXCEPT ![r] =
                        Caught(Logged(@, "UPDATE_FRAGMENT", c, FALSE, NoRow))]
                  /\ UNCHANGED db
    /\ UNCHANGED <<poolMax, download, listing, put, puts, nextId, active, reader, reads>>

\* A variant of MotifRow whose confidence is taken over the matched text only.
MotifRow_MatchOnly(id, fragment_id, fragment, p) ==
    LET match == Exec(p, fragment)
        start_position == match.index
        end_position == start_position + match.length
        confidence_score ==
            calculateConfidenceScore(Slice(fragment, start_position, end_position))
    IN  [motif_id |-> id,
         fragment_id |-> fragment_id,
         motif_pattern |-> Slice(fragment, start_position, end_position),
         motif_type |-> motifs[p].name,
         start_position |-> start_position,
         end_position |-> end_position,
         confidence_score |-> [total |-> SumSeq(confidence_score),
                               length |-> Len(confidence_score)]]

\* The row identifyMotifs inserts for catalog pattern p matched in `fragment`.
\* confidence_score is total / confidence_score.length, kept as the pair.
MotifRow(id, fragment_id, fragment, p) ==
    LET match == Exec(p, fragment)
        start_position == match.index
        end_position == start_position + match.length
        confidence_score == calculateConfidenceScore(fragment)
    IN  [motif_id |-> id,
         fragment_id |-> fragment_id,
         motif_pattern |-> Slice(fragment, start_position, end_position),
         motif_type |-> motifs[p].name,
         start_position |-> start_position,
         end_position |-> end_position,
         confidence_score |-> [total |-> SumSeq(confidence_score),
                               length |-> Len(confidence_score)]]

InsertMotif ==
    \E r \in active :
    /\ run[r].pc = "INSERT_MOTIF"
    /\ \E c \in Acquirable, ok \in BOOLEAN :
          /\ PoolQuery(c)
          /\ IF ~Fails(c, ok) /\ ParentVisible(c, "fragments", run[r].fragmentId)
             THEN LET id == nextId.motifs
                      row == MotifRow(id, run[r].fragmentId, Fragment(r), run[r].m)
                  IN  /\ conn' = ConnAfterWrite(c, "motifs", row)
                      /\ db' = DbAfterWrite(c, "motifs", row)
                      /\ nextId' = [nextId EXCEPT !.motifs = id + 1]
                      /\ run' = [run EXCEPT ![r] =
                            Advance(Logged(@, "INSERT_MOTIF", c, TRUE, row), run[r].m + 1)]
             ELSE /\ conn' = AfterError(c)
                  /\ run' = [run EXCEPT ![r] =
                        Caught(Logged(@, "INSERT_MOTIF", c, FALSE, NoRow))]
                  /\ UNCHANGED <<db, nextId>>
    /\ UNCHANGED <<poolMax, download, listing, put, puts, active, reader, reads>>

\* errorHandler: the status and body it answers an error with.  Only the four
\* classes of error.js carry their own code and message.
errorHandler(error) ==
    CASE error = "BadRequestError"   -> [status |-> 400, error |-> "message"]
      [] error = "UnauthorizedError" -> [status |-> 401, error |-> "message"]
      [] error = "NotFoundError"     -> [status |-> 404, error |-> "message"]
      [] error = "ConflictError"     -> [status |-> 409, error |-> "message"]
      [] OTHER -> [status |-> 500, error |-> "Internal server error"]

\* What the routes answer once createProteinWithFragments has settled
\* (errorHandler answers 500 to any error that is none of the four classes).
IsRoute(rec) == rec.entry \in {"POST /api/proteins", "POST /api/proteins/sequence"}
Responded(rec, code) == IF IsRoute(rec) THEN [rec EXCEPT !.status = code] ELSE rec

Commit ==
    \E r \in active :
    /\ run[r].pc = "COMMIT"
    /\ \E c \in Acquirable, ok \in BOOLEAN :
          /\ PoolQuery(c)
          /\ conn' = ConnAfterEnd(c)
          /\ IF ok
             THEN /\ db' = DbAfterCommit(c)
                  /\ run' = [run EXCEPT ![r] =
                        Responded(
                          [Logged(@, "COMMIT", c, TRUE, NoRow) EXCEPT
                              !.pc = "done",
                              !.outcome = "returned",
                              !.returned =
                                  [protein_id |-> run[r].protein_id,
                                   isoCreatedDate |-> toISOString(run[r].created_at),
                                   isoUpdatedDate |-> toISOString(run[r].updated_at),
                                   sequenceUrl |-> sequenceUrlOf(run[r].protein_id)]],
                          201)]
             ELSE /\ db' = db
                  /\ run' = [run EXCEPT ![r] = Caught(Logged(@, "COMMIT", c, FALSE, NoRow))]
    /\ UNCHANGED <<poolMax, download, listing, put, puts, nextId, active, reader, reads>>

\* The catch block: ROLLBACK, then throw new Error("Fail to create protein
\* with fragments"); a rejected ROLLBACK leaves the catch block with the
\* store's error instead.
Rollback ==
    \E r \in active :
    /\ run[r].pc = "ROLLBACK"
    /\ \E c \in Acquirable, ok \in BOOLEAN :
          /\ PoolQuery(c)
          /\ IF ok
             THEN /\ conn' = ConnAfterEnd(c)
                  /\ run' = [run EXCEPT ![r] =
                        Responded(
                          [Logged(@, "ROLLBACK", c, TRUE, NoRow) EXCEPT
                              !.pc = "done", !.outcome = "Error"], 500)]
             ELSE /\ conn' = conn
                  /\ run' = [run EXCEPT ![r] =
                        Responded(
                          [Logged(@, "ROLLBACK", c, FALSE, NoRow) EXCEPT
                              !.pc = "done", !.outcome = "StorageError"], 500)]
    /\ UNCHANGED <<poolMax, download, listing, put, puts, db, nextId, active, reader, reads>>

(***************************************************************************)
(* The routes of app.js that start a run, and a direct call of the         *)
(* function lib.js exports.                                                *)
(***************************************************************************)
\* /^[ACDEFGHIKLMNPQRSTVWY]+$/.test(sequence)
TestAlphabet(sequence) ==
    /\ Len(sequence) >= 1
    /\ \A k \in 1..Len(sequence) : sequence[k] \in Alphabet

\* A field of the JSON body: absent (undefined) or a string.
Undefined == [defined |-> FALSE, value |-> <<>>]
String(chars) == [defined |-> TRUE, value |-> chars]
NameChoices ==
    {Undefined,
     String(<<>>),
     String(<<"P", "r", "o", "t", "e", "i", "n", "N", "a", "m", "e">>),
     String([k \in 1..(MaxNameLength + 1) |-> "n"])}
DescriptionChoices ==
    {Undefined, String([k \in 1..(MaxDescriptionLength + 1) |-> "d"])}

Started(rec, entry, input, name, description) ==
    [rec EXCEPT !.pc = "BEGIN", !.entry = entry, !.input = input,
                !.name = name, !.description = description]
Rejected(rec, entry, input, error, code) ==
    [rec EXCEPT !.pc = "done", !.entry = entry, !.input = input,
                !.outcome = error, !.status = code]

\* app.post('/api/proteins/sequence'): the body is the sequence.
PostProteinsSequence ==
    \E r \in active :
    /\ run[r].pc = "idle"
    /\ \E input \in InputNames :
          LET sequence == SeqOf(input)
          IN  run' = [run EXCEPT ![r] =
                IF \/ sequence = <<>>
                   \/ Len(sequence) > MaxSequenceLength
                   \/ Len(sequence) < MinSequenceLength
                   \/ ~TestAlphabet(sequence)
                THEN Rejected(@, "POST /api/proteins/sequence", input,
                              "BadRequestError", 400)
                ELSE Started(@, "POST /api/proteins/sequence", input,
                             generateProteinName(sequence), <<>>)]
    /\ UNCHANGED <<poolMax, download, listing, put, puts, created, idle, conn, db, nextId, active, reader, reads>>

\* app.post('/api/proteins'): { sequence, name, description = '' }.  The
\* condition is evaluated left to right; name.length throws a TypeError when
\* the body has no name, which errorHandler answers with 500.
PostProteins ==
    \E r \in active :
    /\ run[r].pc = "idle"
    /\ \E input \in InputNames, name \in NameChoices, desc \in DescriptionChoices :
          LET sequence == SeqOf(input)
              description == IF desc.defined THEN desc.value ELSE <<>>
              proName == IF name.defined /\ name.value # <<>> THEN name.value
                         ELSE generateProteinName(sequence)
              entry == "POST /api/proteins"
          IN  run' = [run EXCEPT ![r] =
                IF Len(sequence) > MaxSequenceLength
                   \/ Len(sequence) < MinSequenceLength
                THEN Rejected(@, entry, input, "BadRequestError", 400)
                ELSE IF ~name.defined
                THEN Rejected(@, entry, input, "TypeError", 500)
                ELSE IF \/ Len(name.value) > MaxNameLength
                        \/ Len(description) > MaxDescriptionLength
                        \/ ~TestAlphabet(sequence)
                THEN Rejected(@, entry, input, "BadRequestError", 400)
                ELSE Started(@, entry, input, proName, description)]
    /\ UNCHANGED <<poolMax, download, listing, put, puts, created, idle, conn, db, nextId, active, reader, reads>>

\* createProteinWithFragments(pool, proteinData, sequence) called with a
\* sequence no route has checked.
DirectInputs == InputNames \ {"toolong"}
DirectCall ==
    \E r \in active :
    /\ run[r].pc = "idle"
    /\ \E input \in DirectInputs :
          run' = [run EXCEPT ![r] =
                    Started(@, "direct", input,
                            generateProteinName(SeqOf(input)), <<>>)]
    /\ UNCHANGED <<poolMax, download, listing, put, puts, created, idle, conn, db, nextId, active, reader, reads>>

(***************************************************************************)
(* app.get('/api/proteins/:proteinId/fragments') with getUpdatedFragmentData *)
(* and getMotifs: one pool.query for the protein, one for its fragments,   *)
(* one per fragment for its motifs (taken here in fragment order).  A       *)
(* query of the reader holds its client from ReaderAcquire to the action    *)
(* that runs it.                                                            *)
(***************************************************************************)
IdleReader ==
    [pc |-> "idle", conn |-> 0, proteinId |-> 0, protein |-> {},
     fragments |-> {}, motifs |-> {}, todo |-> {}, status |-> 0]

ReaderStart ==
    /\ reader.pc \in {"idle", "done"}
    /\ reads < MaxReads
    /\ \E proteinId \in 1..Cardinality(active) :
          reader' = [IdleReader EXCEPT !.pc = "SELECT_PROTEIN",
                                       !.proteinId = proteinId]
    /\ reads' = reads + 1
    /\ UNCHANGED <<poolMax, download, listing, put, puts, created, idle, conn, db, nextId, active, run>>

ReaderAcquire ==
    /\ reader.pc \in {"SELECT_PROTEIN", "SELECT_FRAGMENTS", "SELECT_MOTIFS"}
    /\ reader.conn = 0
    /\ \E c \in Acquirable :
          /\ idle' = IdleAfterTake(c)
          /\ created' = CreatedAfterTake(c)
          /\ reader' = [reader EXCEPT !.conn = c]
    /\ UNCHANGED <<poolMax, download, listing, put, puts, conn, db, nextId, active, run, reads>>

\* The reader's client goes back to the pool with the query's result.
Released(rec) == [rec EXCEPT !.conn = 0]
ReaderFailed(rec) == [Released(rec) EXCEPT !.pc = "done", !.status = 500]

ReaderSelectProtein ==
    /\ reader.pc = "SELECT_PROTEIN"
    /\ reader.conn # 0
    /\ LET c == reader.conn
           rows == {p \in Visible(c).proteins : p.protein_id = reader.proteinId}
       IN  reader' =
             IF conn[c].aborted THEN ReaderFailed(reader)
             ELSE IF rows = {}
             THEN [Released(reader) EXCEPT !.pc = "done", !.status = 404]
             ELSE [Released(reader) EXCEPT !.pc = "SELECT_FRAGMENTS",
                                           !.protein = rows]
    /\ idle' = Append(idle, reader.conn)
    /\ UNCHANGED <<poolMax, download, listing, put, puts, created, conn, db, nextId, active, run, reads>>

ReaderSelectFragments ==
    /\ reader.pc = "SELECT_FRAGMENTS"
    /\ reader.conn # 0
    /\ LET c == reader.conn
           rows == {f \in Visible(c).fragments : f.protein_id = reader.proteinId}
       IN  reader' =
             IF conn[c].aborted THEN ReaderFailed(reader)
             ELSE IF rows = {}
             THEN [Released(reader) EXCEPT !.pc = "done", !.status = 200]
             ELSE [Released(reader) EXCEPT
                      !.pc = "SELECT_MOTIFS",
                      !.fragments = rows,
                      !.todo = {f.fragment_id : f \in rows}]
    /\ idle' = Append(idle, reader.conn)
    /\ UNCHANGED <<poolMax, download, listing, put, puts, created, conn, db, nextId, active, run, reads>>

\* getMotifs: SELECT DISTINCT m.motif_type FROM motifs m INNER JOIN fragments f
\* ON m.fragment_id = f.fragment_id WHERE f.fragment_id = $1.
ReaderSelectMotifs ==
    /\ reader.pc = "SELECT_MOTIFS"
    /\ reader.conn # 0
    /\ LET c == reader.conn
           fragmentId == CHOOSE f \in reader.todo : \A g \in reader.todo : f <= g
           rows == {m \in Visible(c).motifs :
                       /\ m.fragment_id = fragmentId
                       /\ \E f \in Visible(c).fragments : f.fragment_id = fragmentId}
           found == [fragmentId |-> fragmentId,
                     motifs |-> {m.motif_type : m \in rows}]
           rest == reader.todo \ {fragmentId}
       IN  reader' =
             IF conn[c].aborted THEN ReaderFailed(reader)
             ELSE [Released(reader) EXCEPT
                      !.motifs = @ \cup {found},
                      !.todo = rest,
                      !.pc = IF rest = {} THEN "done" ELSE "SELECT_MOTIFS",
                      !.status = IF rest = {} THEN 200 ELSE 0]
    /\ idle' = Append(idle, reader.conn)
    /\ UNCHANGED <<poolMax, download, listing, put, puts, created, conn, db, nextId, active, run, reads>>

(***************************************************************************)
(* app.put('/api/proteins/:proteinId'): one pool.query that selects the    *)
(* protein, one that updates its name and description.                     *)
(***************************************************************************)
IdlePut ==
    [pc |-> "idle", proteinId |-> 0, name |-> <<>>, description |-> <<>>,
     status |-> 0]

\* let { name = "", description = "" } = req.body
NewName == <<"N", "e", "w">>
NewDescription == <<"T", "e", "x", "t">>
PutBodies ==
    {[name |-> NewName, description |-> <<>>],
     [name |-> <<>>, description |-> NewDescription],
     [name |-> [k \in 1..(MaxNameLength + 1) |-> "n"], description |-> <<>>]}

\* String.prototype.trim() === "" for the strings of PutBodies (none has
\* white space).
TrimsToEmpty(string) == string = <<>>

\* An UPDATE waits while another session's open transaction holds an
\* uncommitted change of the committed row.
Blocked(c, table, id) ==
    /\ \E row \in db[table] : KeyOf(table, row) = id
    /\ \E o \in Conns \ {c} :
          /\ conn[o].inTx
          /\ \E row \in conn[o].pending[table] : KeyOf(table, row) = id

\* The request is made once the first annotation has returned, and while no
\* other annotation is under way.
PutSelect ==
    /\ put.pc = "idle"
    /\ puts < MaxPuts
    /\ 1 \in active
    /\ \A r \in active : run[r].pc \in {"idle", "done"}
    /\ run[1].pc = "done"
    /\ puts' = puts + 1
    /\ \E body \in PutBodies, c \in Acquirable, ok \in BOOLEAN :
          /\ PoolQuery(c)
          /\ LET proteinId == 1
                 rows == {p \in Visible(c).proteins : p.protein_id = proteinId}
                 protein == CHOOSE p \in rows : TRUE
                 name == IF TrimsToEmpty(body.name) THEN protein.name
                         ELSE body.name
                 description == IF TrimsToEmpty(body.description)
                                THEN protein.description
                                ELSE body.description
                 asked == [IdlePut EXCEPT !.proteinId = proteinId]
             IN  IF Fails(c, ok)
                 THEN /\ conn' = AfterError(c)
                      /\ put' = [asked EXCEPT !.pc = "done", !.status = 500]
                 ELSE /\ conn' = conn
                      /\ put' =
                           IF rows = {}
                           THEN [asked EXCEPT !.pc = "done", !.status = 404]
                           ELSE IF \/ Len(name) > MaxNameLength
                                   \/ Len(description) > MaxDescriptionLength
                           THEN [asked EXCEPT !.pc = "done", !.status = 400]
                           ELSE [asked EXCEPT !.pc = "UPDATE", !.name = name,
                                              !.description = description]
    /\ UNCHANGED <<poolMax, download, listing, db, nextId, active, run, reader, reads>>

\* UPDATE proteins SET name = $1, description = $2 WHERE protein_id = $3
\* RETURNING *; the answer is 200 also when no row was updated.
PutUpdate ==
    /\ put.pc = "UPDATE"
    /\ \E c \in Acquirable, ok \in BOOLEAN :
          /\ ~Blocked(c, "proteins", put.proteinId)
          /\ PoolQuery(c)
          /\ IF Fails(c, ok)
             THEN /\ conn' = AfterError(c)
                  /\ db' = db
                  /\ put' = [put EXCEPT !.pc = "done", !.status = 500]
             ELSE LET hit == {p \in Visible(c).proteins :
                                 p.protein_id = put.proteinId}
                  IN  /\ IF hit = {} THEN UNCHANGED <<conn, db>>
                         ELSE LET old == CHOOSE p \in hit : TRUE
                                  row == [old EXCEPT
                                            !.name = put.name,
                                            !.description = put.description]
                              IN  /\ conn' = ConnAfterWrite(c, "proteins", row)
                                  /\ db' = DbAfterWrite(c, "proteins", row)
                      /\ put' = [put EXCEPT !.pc = "done", !.status = 200]
    /\ UNCHANGED <<poolMax, download, listing, puts, nextId, active, run, reader, reads>>

(***************************************************************************)
(* GET /api/proteins/:proteinId/download: the protein's fragments are      *)
(* selected and the sequence is put together from them.  The request is    *)
(* made for the protein of the first annotation, once that has ended.      *)
(***************************************************************************)
IdleDownload ==
    [pc |-> "idle", proteinId |-> 0, rows |-> <<>>, status |-> 0, body |-> <<>>]

\* String.prototype.substring(start): the string from offset start on.
Substring(string, start) ==
    IF start >= Len(string) THEN <<>> ELSE SubSeq(string, start + 1, Len(string))

\* The loop of the route: rows[0].sequence, then every later row's sequence
\* without its first ten residues.
RECURSIVE Reassembled(_)
Reassembled(rows) ==
    IF Len(rows) = 1 THEN rows[1].sequence
    ELSE Reassembled(SubSeq(rows, 1, Len(rows) - 1))
            \o Substring(rows[Len(rows)].sequence, 10)

\* The orders in which SELECT * FROM fragments WHERE protein_id = $1 (no
\* ORDER BY) may return the rows of a set.
RowOrders(rows) ==
    {order \in [1..Cardinality(rows) -> rows] :
        \A j, k \in 1..Cardinality(rows) : j # k => order[j] # order[k]}

DownloadSelectProtein ==
    /\ download.pc = "idle"
    /\ 1 \in active
    /\ \A r \in active : run[r].pc \in {"idle", "done"}
    /\ run[1].pc = "done"
    /\ run[1].protein_id # 0
    /\ \E c \in Acquirable, ok \in BOOLEAN :
          /\ PoolQuery(c)
          /\ LET asked == [IdleDownload EXCEPT !.proteinId = run[1].protein_id]
                 protein == {p \in Visible(c).proteins :
                               p.protein_id = asked.proteinId}
             IN  IF Fails(c, ok)
                 THEN /\ conn' = AfterError(c)
                      /\ download' = [asked EXCEPT !.pc = "done",
                             !.status = errorHandler("StorageError").status]
                 ELSE /\ conn' = conn
                      /\ download' =
                           IF protein = {}
                           THEN [asked EXCEPT !.pc = "done",
                                    !.status = errorHandler("NotFoundError").status]
                           ELSE [asked EXCEPT !.pc = "SELECT_FRAGMENTS"]
    /\ UNCHANGED <<poolMax, listing, put, puts, db, nextId, active, run, reader, reads>>

\* fragmentData.rows[0].sequence throws a TypeError when no row came back;
\* the file is written, sent with res.download (200) and removed.
DownloadSelectFragments ==
    /\ download.pc = "SELECT_FRAGMENTS"
    /\ \E c \in Acquirable, ok \in BOOLEAN :
          /\ PoolQuery(c)
          /\ IF Fails(c, ok)
             THEN /\ conn' = AfterError(c)
                  /\ download' = [download EXCEPT !.pc = "done",
                         !.status = errorHandler("StorageError").status]
             ELSE /\ conn' = conn
                  /\ LET found == {f \in Visible(c).fragments :
                                     f.protein_id = download.proteinId}
                     IN  IF found = {}
                         THEN download' = [download EXCEPT !.pc = "done",
                                 !.status = errorHandler("TypeError").status]
                         ELSE \E rows \in RowOrders(found) :
                                 download' = [download EXCEPT
                                     !.pc = "done", !.rows = rows,
                                     !.status = 200,
                                     !.body = Reassembled(rows)]
    /\ UNCHANGED <<poolMax, listing, put, puts, db, nextId, active, run, reader, reads>>

(***************************************************************************)
(* GET /api/proteins.  The handler is async (req, res) => {...}: it has no *)
(* parameter next, so next(error) in its catch block throws a              *)
(* ReferenceError and the handler's promise is rejected.  What the client  *)
(* then gets depends on the Express the server runs with: nothing at all   *)
(* (the rejection is not handled and the request is left open, or the      *)
(* process ends), or errorHandler's answer to the ReferenceError.          *)
(***************************************************************************)
IdleListing ==
    [pc |-> "idle", limit |-> <<>>, offset |-> <<>>, total |-> 0,
     error |-> "none", status |-> 0]

\* req.query.limit and req.query.offset after parseInt: absent (null) or a
\* number.
LimitChoices == {<<>>, <<0>>, <<1>>}
OffsetChoices == {<<>>, <<0 - 1>>, <<0>>, <<1>>}

\* The outcomes of next(error) where next is not defined.
Unanswered(rec, error) ==
    {[rec EXCEPT !.pc = "done", !.error = error, !.status = 0],
     [rec EXCEPT !.pc = "done", !.error = error,
                 !.status = errorHandler("ReferenceError").status]}

\* The checks of the parameters and SELECT * FROM proteins for the count.
ListCount ==
    /\ listing.pc = "idle"
    /\ \A r \in active : run[r].pc \in {"idle", "done"}
    /\ \E limit \in LimitChoices, offset \in OffsetChoices :
          LET asked == [IdleListing EXCEPT !.limit = limit, !.offset = offset]
          IN  IF \/ limit # <<>> /\ limit[1] <= 0
                 \/ offset # <<>> /\ offset[1] < 0
              THEN /\ listing' \in Unanswered(asked, "BadRequestError")
                   /\ UNCHANGED <<created, idle, conn>>
              ELSE \E c \in Acquirable, ok \in BOOLEAN :
                      /\ PoolQuery(c)
                      /\ IF Fails(c, ok)
                         THEN /\ conn' = AfterError(c)
                              /\ listing' \in Unanswered(asked, "StorageError")
                         ELSE /\ conn' = conn
                              /\ LET rowCount == Cardinality(Visible(c).proteins)
                                     counted == [asked EXCEPT !.total = rowCount]
                                 IN  IF offset # <<>> /\ offset[1] >= rowCount
                                     THEN listing' \in
                                            Unanswered(counted, "BadRequestError")
                                     ELSE listing' =
                                            [counted EXCEPT !.pc = "SELECT"]
    /\ UNCHANGED <<poolMax, download, put, puts, db, nextId, active, run, reader, reads>>

\* SELECT * FROM proteins ORDER BY created_at ASC, with LIMIT and OFFSET when
\* one of them was given; res.status(200).
ListSelect ==
    /\ listing.pc = "SELECT"
    /\ \E c \in Acquirable, ok \in BOOLEAN :
          /\ PoolQuery(c)
          /\ IF Fails(c, ok)
             THEN /\ conn' = AfterError(c)
                  /\ listing' \in Unanswered(listing, "StorageError")
             ELSE /\ conn' = conn
                  /\ listing' = [listing EXCEPT !.pc = "done", !.status = 200]
    /\ UNCHANGED <<poolMax, download, put, puts, db, nextId, active, run, reader, reads>>

(***************************************************************************)
(* The system: the server after start-up (the pool's first client opened   *)
(* by SELECT NOW()), an empty store, one annotation run and a reader.  The *)
(* pool is given its smallest or its largest size: one run and one reader  *)
(* hold at most two clients at a time, so the sizes between behave as the  *)
(* largest.                                                                *)
(***************************************************************************)
FreshSession == [inTx |-> FALSE, aborted |-> FALSE, pending |-> NoRows]

Init ==
    /\ poolMax \in {1, MaxPool}
    /\ created = 1
    /\ idle = <<1>>
    /\ conn = [c \in Conns |-> FreshSession]
    /\ db = NoRows
    /\ nextId = [proteins |-> 1, fragments |-> 1, motifs |-> 1]
    /\ active = {1}
    /\ run = [r \in RunIds |-> IdleRun]
    /\ reader = IdleReader
    /\ reads = 0
    /\ put = IdlePut
    /\ puts = 0
    /\ download = IdleDownload
    /\ listing = IdleListing

Next ==
    \/ PostProteinsSequence
    \/ PostProteins
    \/ DirectCall
    \/ Begin
    \/ InsertProtein
    \/ UpdateProteinUrl
    \/ InsertFragment
    \/ UpdateFragmentUrl
    \/ InsertMotif
    \/ Commit
    \/ Rollback
    \/ ReaderStart
    \/ ReaderAcquire
    \/ ReaderSelectProtein
    \/ ReaderSelectFragments
    \/ ReaderSelectMotifs

Spec == Init /\ [][Next]_vars

(***************************************************************************)
(* The server with later operations: a first annotation and, once it has   *)
(* returned, a second annotation and a PUT one after the other in either   *)
(* order, with the reader at any time.                                     *)
(***************************************************************************)
\* The first annotation has one fragment with a motif, the second none.
LaterInputs(r) == IF r = 1 THEN {"twice"} ELSE {"short"}

InitLater ==
    /\ poolMax \in {1, MaxPool}
    /\ created = 1
    /\ idle = <<1>>
    /\ conn = [c \in Conns |-> FreshSession]
    /\ db = NoRows
    /\ nextId = [proteins |-> 1, fragments |-> 1, motifs |-> 1]
    /\ active = RunIds
    /\ run = [r \in RunIds |-> IdleRun]
    /\ reader = IdleReader
    /\ reads = 0
    /\ put = IdlePut
    /\ puts = 0
    /\ download = IdleDownload
    /\ listing = IdleListing

\* createProteinWithFragments called for one protein after the other.
AnnotateLater ==
    \E r \in active :
    /\ run[r].pc = "idle"
    /\ \A q \in active : q < r => run[q].pc = "done"
    /\ put.pc \in {"idle", "done"}
    /\ \E input \in LaterInputs(r) :
          run' = [run EXCEPT ![r] =
                    Started(@, "direct", input,
                            generateProteinName(SeqOf(input)), <<>>)]
    /\ UNCHANGED <<poolMax, download, listing, put, puts, created, idle, conn, db, nextId, active, reader, reads>>

NextLater ==
    \/ AnnotateLater
    \/ Begin
    \/ InsertProtein
    \/ UpdateProteinUrl
    \/ InsertFragment
    \/ UpdateFragmentUrl
    \/ InsertMotif
    \/ Commit
    \/ Rollback
    \/ ReaderStart
    \/ ReaderAcquire
    \/ ReaderSelectProtein
    \/ ReaderSelectFragments
    \/ ReaderSelectMotifs
    \/ PutSelect
    \/ PutUpdate

SpecLater == InitLater /\ [][NextLater]_vars

(***************************************************************************)
(* Successive annotations: createProteinWithFragments called twice, the    *)
(* second call after the first has ended, on sequences whose windows hold  *)
(* more than one occurrence of a catalog pattern.                          *)
(***************************************************************************)
ScanInputs == {"twice", "motif"}

AnnotateAgain ==
    \E r \in active :
    /\ run[r].pc = "idle"
    /\ \A q \in active : q < r => run[q].pc = "done"
    /\ \E input \in ScanInputs :
          run' = [run EXCEPT ![r] =
                    Started(@, "direct", input,
                            generateProteinName(SeqOf(input)), <<>>)]
    /\ UNCHANGED <<poolMax, download, listing, put, puts, created, idle, conn, db, nextId, active, reader, reads>>

NextSuccessive ==
    \/ AnnotateAgain
    \/ Begin
    \/ InsertProtein
    \/ UpdateProteinUrl
    \/ InsertFragment
    \/ UpdateFragmentUrl
    \/ InsertMotif
    \/ Commit
    \/ Rollback

SpecSuccessive == InitLater /\ [][NextSuccessive]_vars

(***************************************************************************)
(* Reading back: one annotation through a route, and once it has ended the *)
(* download of its protein and the list of the proteins.                   *)
(***************************************************************************)
NextRead ==
    \/ PostProteinsSequence
    \/ Begin
    \/ InsertProtein
    \/ UpdateProteinUrl
    \/ InsertFragment
    \/ UpdateFragmentUrl
    \/ InsertMotif
    \/ Commit
    \/ Rollback
    \/ DownloadSelectProtein
    \/ DownloadSelectFragments
    \/ ListCount
    \/ ListSelect

SpecRead == Init /\ [][NextRead]_vars

(***************************************************************************)
(* Concurrent annotations: two calls of createProteinWithFragments for     *)
(* different proteins in flight at once, interleaving at their awaits.     *)
(***************************************************************************)
ConcurrentInputs == {"sixteen", "short"}

AnnotateConcurrently ==
    \E r \in active :
    /\ run[r].pc = "idle"
    /\ \E input \in ConcurrentInputs :
          run' = [run EXCEPT ![r] =
                    Started(@, "direct", input,
                            generateProteinName(SeqOf(input)), <<>>)]
    /\ UNCHANGED <<poolMax, download, listing, put, puts, created, idle, conn, db, nextId, active, reader, reads>>

NextConcurrent ==
    \/ AnnotateConcurrently
    \/ Begin
    \/ InsertProtein
    \/ UpdateProteinUrl
    \/ InsertFragment
    \/ UpdateFragmentUrl
    \/ InsertMotif
    \/ Commit
    \/ Rollback

SpecConcurrent == InitLater /\ [][NextConcurrent]_vars

(***************************************************************************)
(* Vocabulary of the properties.                                           *)
(***************************************************************************)
Sessions == 1..created
Log(r) == run[r].log
Issued(r, op) == {k \in DOMAIN Log(r) : Log(r)[k].op = op}
Succeeded(r, op) == {k \in Issued(r, op) : Log(r)[k].ok}
Returned(r) == run[r].pc = "done" /\ run[r].outcome = "returned"

\* The rows among `rows` that run r wrote: its protein, the fragments of that
\* protein and the motifs of the fragments it inserted.
FragmentIdsOf(r) ==
    {Log(r)[k].row.fragment_id : k \in Succeeded(r, "INSERT_FRAGMENT")}
RowsOfRun(r, rows) ==
    [proteins  |-> {p \in rows.proteins :
                       run[r].protein_id # 0 /\ p.protein_id = run[r].protein_id},
     fragments |-> {f \in rows.fragments :
                       run[r].protein_id # 0 /\ f.protein_id = run[r].protein_id},
     motifs    |-> {m \in rows.motifs : m.fragment_id \in FragmentIdsOf(r)}]

\* What a query on session c is shown: nothing but an error inside an aborted
\* transaction, else the rows visible to the session.
Shown(c) == IF conn[c].aborted THEN NoRows ELSE Visible(c)

\* The window starts of a sequence of length len: 0, 5, 10, ... while the
\* window fits.
WindowStarts(len) ==
    {i \in 0..len : i % stepSize = 0 /\ i + windowSize <= len}

StorageWrites ==
    {"INSERT_PROTEIN", "UPDATE_PROTEIN", "INSERT_FRAGMENT", "UPDATE_FRAGMENT",
     "INSERT_MOTIF", "COMMIT"}

(***************************************************************************)
(* C1.  Once createProteinWithFragments has returned its error after a     *)
(* failed protein insert, URL update, fragment insert or update, motif     *)
(* insert or COMMIT, no session of the store shows a Protein, Fragment or  *)
(* Motif row written by that run.                                          *)
(***************************************************************************)
C1_FailureLeavesNoRows ==
    \A r \in active :
        (/\ run[r].pc = "done"
         /\ run[r].outcome = "Error"
         /\ \E k \in DOMAIN Log(r) :
               Log(r)[k].op \in StorageWrites /\ ~Log(r)[k].ok)
        => \A c \in Sessions : RowsOfRun(r, Shown(c)) = NoRows

(***************************************************************************)
(* C2.  All statements of one run, BEGIN to COMMIT or ROLLBACK, execute on *)
(* one and the same session of the store, whatever the pool's size.        *)
(***************************************************************************)
C2_OneTransactionScope ==
    \A r \in active :
        \A j, k \in DOMAIN Log(r) : Log(r)[j].conn = Log(r)[k].conn

(***************************************************************************)
(* C3.  A reader never observes a Protein whose sequence_url is null, a    *)
(* Protein with only some of its Fragments, a Fragment whose url is null   *)
(* or a Fragment with only some of its Motifs.                             *)
(***************************************************************************)
OwnerInput(protein_id) ==
    {run[r].input : r \in {q \in active : run[q].protein_id = protein_id}}
ExpectedMotifTypes(fragment) ==
    {motifs[p].name : p \in {q \in 1..Len(motifs) : Exec(q, fragment) # NULL}}

C3_ReaderSeesNothingOrAll ==
    /\ \A p \in reader.protein : p.sequence_url # NULL
    /\ reader.pc \in {"SELECT_MOTIFS", "done"} /\ reader.protein # {}
       /\ reader.status \in {0, 200}
       => /\ \A f \in reader.fragments : f.url # NULL
          /\ \A input \in OwnerInput(reader.proteinId) :
                {f.start_position : f \in reader.fragments}
                    = WindowStarts(Len(SeqOf(input)))
    /\ \A found \in reader.motifs :
          \A f \in reader.fragments :
             f.fragment_id = found.fragmentId
             => found.motifs = ExpectedMotifTypes(f.sequence)

(***************************************************************************)
(* C4.  For a fragment that starts at offset s of the parent sequence and  *)
(* a motif matched at in-fragment offset k with length m, the Motif row    *)
(* written has start_position = s + k and end_position = s + k + m, so     *)
(* that its start lies in [s, s + 15).                                     *)
(***************************************************************************)
PatternOf(motif_type) == CHOOSE p \in 1..Len(motifs) : motifs[p].name = motif_type
FragmentRowOf(r, fragment_id) ==
    LET k == CHOOSE j \in Succeeded(r, "INSERT_FRAGMENT") :
                 Log(r)[j].row.fragment_id = fragment_id
    IN  Log(r)[k].row

C4_MotifPositionsAbsolute ==
    \A r \in active :
        \A j \in Succeeded(r, "INSERT_MOTIF") :
            LET motif == Log(r)[j].row
                fragment == FragmentRowOf(r, motif.fragment_id)
                s == fragment.start_position
                match == Exec(PatternOf(motif.motif_type), fragment.sequence)
            IN  /\ motif.start_position = s + match.index
                /\ motif.end_position = s + match.index + match.length
                /\ s <= motif.start_position
                /\ motif.start_position < s + 15

(***************************************************************************)
(* C5.  For a sequence of length L >= 15 the loop of                        *)
(* fragmentAndStoreSequence inserts floor((L - 15)/5) + 1 fragments, in    *)
(* ascending order of start, with starts 0, 5, 10, ...; each is the 15     *)
(* residues sequence[start, start + 15) and is inserted with               *)
(* start_position = start and end_position = start + 15 <= L.              *)
(***************************************************************************)
\* The loop has run to its end: the run stands at COMMIT or has issued it.
LoopDone(r) == run[r].pc = "COMMIT" \/ Issued(r, "COMMIT") # {}

C5_SlidingWindow ==
    \A r \in active :
        LET sequence == Sequence(r)
            L == Len(sequence)
            inserts == Issued(r, "INSERT_FRAGMENT")
        IN  run[r].input # "none" /\ L >= 15 =>
              /\ \A j \in inserts \cap Succeeded(r, "INSERT_FRAGMENT") :
                    LET start == 5 * Cardinality({i \in inserts : i < j})
                        row == Log(r)[j].row
                    IN  /\ row.start_position = start
                        /\ row.end_position = start + 15
                        /\ row.end_position <= L
                        /\ Len(row.sequence) = 15
                        /\ \A o \in 1..15 : row.sequence[o] = sequence[start + o]
              /\ LoopDone(r) =>
                    /\ Cardinality(inserts) = ((L - 15) \div 5) + 1
                    /\ \A j \in inserts : Log(r)[j].ok

C5_Witness ==
    \E r \in active :
        /\ Returned(r)
        /\ run[r].input = "motif"
        /\ Cardinality(Succeeded(r, "INSERT_FRAGMENT")) = 2

AllSucceeded(r) == \A k \in DOMAIN Log(r) : Log(r)[k].ok

C7_CommitThenReadBack ==
    \A r \in active :
        AllSucceeded(r) =>
          /\ \A k \in Issued(r, "COMMIT") :
                /\ k = Len(Log(r))
                /\ \E j \in 1..(k - 1) : Log(r)[j].op = "INSERT_PROTEIN"
                /\ \E j \in 1..(k - 1) : Log(r)[j].op = "UPDATE_PROTEIN"
                /\ Cardinality({j \in 1..(k - 1) : Log(r)[j].op = "INSERT_FRAGMENT"})
                      = Cardinality(WindowStarts(Len(Sequence(r))))
          /\ Returned(r) =>
                /\ Succeeded(r, "COMMIT") # {}
                /\ run[r].returned.protein_id = run[r].protein_id
                /\ run[r].returned.isoCreatedDate = toISOString(run[r].created_at)
                /\ run[r].returned.isoUpdatedDate = toISOString(run[r].updated_at)
                /\ run[r].returned.sequenceUrl = sequenceUrlOf(run[r].protein_id)
                /\ run[r].returned.sequenceUrl # NULL
                /\ \A c \in Sessions :
                      {f.start_position : f \in RowsOfRun(r, Shown(c)).fragments}
                          = WindowStarts(Len(Sequence(r)))
                /\ run[r].input = "example" =>
                      {f.start_position : f \in RowsOfRun(r, db).fragments} = {0, 5}

(***************************************************************************)
(* C8.  For a sequence of length L < 15 handed to                          *)
(* createProteinWithFragments no fragment and no motif is inserted, and    *)
(* when every storage operation succeeds the run returns without an error  *)
(* and the Protein is committed with its sequence URL set.                 *)
(***************************************************************************)
C8_ShortSequenceCommitted ==
    \A r \in active :
        run[r].entry = "direct" /\ Len(Sequence(r)) < 15 =>
          /\ Issued(r, "INSERT_FRAGMENT") = {}
          /\ Issued(r, "INSERT_MOTIF") = {}
          /\ run[r].pc = "done" /\ AllSucceeded(r) =>
                /\ Returned(r)
                /\ \E p \in db.proteins :
                      /\ p.protein_id = run[r].protein_id
                      /\ p.sequence_url = sequenceUrlOf(run[r].protein_id)

(***************************************************************************)
(* C9.  A POST /api/proteins or POST /api/proteins/sequence request whose  *)
(* sequence has a symbol outside the alphabet, or fewer than 20 or more    *)
(* than 2000 residues, is answered with a BadRequestError (400), and no    *)
(* statement of the annotation transaction is issued for it.               *)
(***************************************************************************)
InvalidInput(sequence) ==
    \/ ~TestAlphabet(sequence)
    \/ Len(sequence) < MinSequenceLength
    \/ Len(sequence) > MaxSequenceLength

C9_RoutesRejectInvalid ==
    \A r \in active :
        IsRoute(run[r]) /\ InvalidInput(Sequence(r)) =>
          /\ run[r].pc = "done"
          /\ run[r].outcome = "BadRequestError"
          /\ run[r].status = 400
          /\ Log(r) = <<>>

BadSymbolInWindow(sequence) ==
    \E i \in WindowStarts(Len(sequence)) :
        \E k \in (i + 1)..(i + 15) : sequence[k] \notin Alphabet

FirstFailure(r) ==
    LET failed == {k \in DOMAIN Log(r) : ~Log(r)[k].ok}
    IN  IF failed = {} THEN 0 ELSE CHOOSE k \in failed : \A j \in failed : k <= j

C11_RollbackThenAggregateError ==
    \A r \in active :
        FirstFailure(r) # 0 =>
          /\ \A k \in DOMAIN Log(r) :
                k > FirstFailure(r) => Log(r)[k].op = "ROLLBACK"
          /\ Cardinality(Issued(r, "ROLLBACK")) <= 1
          /\ run[r].pc = "done" =>
                /\ Cardinality(Issued(r, "ROLLBACK")) = 1
                /\ run[r].outcome = "Error"

(***************************************************************************)
(* C11, amended.  After the first storage operation of a run that fails,   *)
(* no insert, update, BEGIN or COMMIT is issued again and exactly one      *)
(* ROLLBACK is issued.  The caller is answered only after the ROLLBACK:    *)
(* with the aggregate Error when the ROLLBACK succeeded, with the          *)
(* ROLLBACK's own storage error when it failed.  A run none of whose       *)
(* statements fails issues a ROLLBACK only when predictSecondaryStructure  *)
(* throws.                                                                 *)
(***************************************************************************)
C11_RollbackThenReport ==
    \A r \in active :
        /\ FirstFailure(r) # 0 =>
              /\ \A k \in DOMAIN Log(r) :
                    k > FirstFailure(r) =>
                       /\ Log(r)[k].op = "ROLLBACK"
                       /\ k = FirstFailure(r) + 1 \/ Log(r)[FirstFailure(r)].op = "ROLLBACK"
              /\ Cardinality(Issued(r, "ROLLBACK")) <= 1
              /\ run[r].pc # "done" => run[r].pc = "ROLLBACK" /\ run[r].outcome = "none"
              /\ run[r].pc = "done" =>
                    /\ Cardinality(Issued(r, "ROLLBACK")) = 1
                    /\ Log(r)[Len(Log(r))].op = "ROLLBACK"
                    /\ run[r].outcome =
                          IF Succeeded(r, "ROLLBACK") # {} THEN "Error"
                          ELSE "StorageError"
        /\ run[r].outcome \in {"Error", "StorageError"} => Issued(r, "ROLLBACK") # {}
        /\ FirstFailure(r) = 0 /\ Issued(r, "ROLLBACK") # {} =>
              BadSymbolInWindow(Sequence(r))

C11_Witness ==
    \E r \in active :
        /\ run[r].pc = "done"
        /\ run[r].outcome = "Error"
        /\ FirstFailure(r) # 0
        /\ Log(r)[FirstFailure(r)].op = "INSERT_FRAGMENT"
        /\ Succeeded(r, "ROLLBACK") # {}

(***************************************************************************)
(* C12.  When a step of a run fails and the ROLLBACK fails too, what the   *)
(* caller of the route receives differs from what it receives for a        *)
(* failure whose ROLLBACK succeeded.                                       *)
(***************************************************************************)
C12_RollbackFailureDistinct ==
    \A r \in active :
        (/\ IsRoute(run[r])
         /\ run[r].pc = "done"
         /\ Issued(r, "ROLLBACK") # {}
         /\ Succeeded(r, "ROLLBACK") = {})
        => /\ run[r].status = errorHandler(run[r].outcome).status
           /\ errorHandler(run[r].outcome) # errorHandler("Error")

(***************************************************************************)
(* Reference definitions for the classifier and the confidence score.      *)
(***************************************************************************)
\* The class of the greatest score, Helix before Strand before Coil on a tie.
ReferenceChoice(p) ==
    IF p.H >= p.E /\ p.H >= p.C THEN "H"
    ELSE IF p.E >= p.C THEN "E"
    ELSE "C"

\* The largest minus the second largest of the three scores.
Margin(p) ==
    LET mx == IF p.H >= p.E /\ p.H >= p.C THEN p.H
              ELSE IF p.E >= p.C THEN p.E ELSE p.C
        mn == IF p.H <= p.E /\ p.H <= p.C THEN p.H
              ELSE IF p.E <= p.C THEN p.E ELSE p.C
    IN  mx - ((p.H + p.E + p.C) - mx - mn)

\* The fragment rows a run has inserted, and the sequences handed to the
\* program that lie within the alphabet.
InsertedFragments(r) == {Log(r)[k].row : k \in Succeeded(r, "INSERT_FRAGMENT")}
InsertedMotifs(r) == {Log(r)[k].row : k \in Succeeded(r, "INSERT_MOTIF")}
\* The row the run's latest statement inserted, if it was an insert of `op`
\* and succeeded: a property of every row inserted is checked on each row as
\* it is inserted.
JustInserted(r, op) ==
    LET n == Len(Log(r))
    IN  IF n > 0 /\ Log(r)[n].op = op /\ Log(r)[n].ok THEN {Log(r)[n].row} ELSE {}
AlphabetInputs ==
    {SeqOf(n) : n \in {m \in InputNames \ {"toolong"} : TestAlphabet(SeqOf(m))}}

(***************************************************************************)
(* C13.  predictSecondaryStructure labels each residue with the class of   *)
(* its greatest propensity, Helix before Strand before Coil on a tie: for  *)
(* each of the 20 residues of the table, and so for every residue of every *)
(* fragment inserted, the label is this reference choice (A is labelled    *)
(* H).  No residue of the table has two equal greatest scores.             *)
(***************************************************************************)
TableLabels ==
    /\ \A aa \in Alphabet :
          /\ LabelOf(aa) = ReferenceChoice(propensities[aa])
          /\ LET p == propensities[aa]
             IN  Cardinality({f \in {"H", "E", "C"} :
                                 \A g \in {"H", "E", "C"} : p[g] <= p[f]}) = 1
    /\ LabelOf("A") = "H"

C13_LabelIsGreatest ==
    /\ TableLabels
    /\ \A r \in active :
          \A row \in JustInserted(r, "INSERT_FRAGMENT") :
             \A k \in 1..Len(row.sequence) :
                row.secondary_structure[k]
                   = ReferenceChoice(propensities[row.sequence[k]])

C13_Witness ==
    \E r \in active :
        /\ run[r].input = "example"
        /\ \E row \in InsertedFragments(r) :
              /\ row.start_position = 5
              /\ row.secondary_structure[1] = "C"
              /\ row.secondary_structure[15] = "E"
        /\ \E row \in InsertedFragments(r) :
              /\ row.start_position = 0
              /\ row.secondary_structure[1] = "H"

(***************************************************************************)
(* C14.  For every sequence over the alphabet predictSecondaryStructure    *)
(* returns as many labels as the sequence has residues, and the same       *)
(* labels when invoked again; every Fragment row inserted or persisted has *)
(* a secondary_structure of 15 labels for its 15 residues.                 *)
(***************************************************************************)
InputStructures ==
    \A sequence \in AlphabetInputs :
        /\ Len(predictSecondaryStructure(sequence)) = Len(sequence)
        /\ \A k \in 1..Len(sequence) :
              predictSecondaryStructure(sequence)[k] \in {"H", "E", "C"}

TableMargins ==
    /\ \A aa \in Alphabet :
          /\ ConfidenceOf(aa) = Margin(propensities[aa])
          /\ ConfidenceOf(aa) >= 0
    /\ \A sequence \in AlphabetInputs :
          Len(calculateConfidenceScore(sequence)) = Len(sequence)

C15_ConfidenceMargin ==
    /\ TableMargins
    /\ \A r \in active :
          \A row \in JustInserted(r, "INSERT_FRAGMENT") :
             LET scores == calculateConfidenceScore(row.sequence)
             IN  /\ Len(scores) = Len(row.sequence)
                 /\ \A k \in 1..Len(scores) :
                       /\ scores[k] = Margin(propensities[row.sequence[k]])
                       /\ scores[k] >= 0

C15_Witness ==
    \E r \in active :
        \E row \in InsertedFragments(r) :
            /\ row.sequence[1] = "A"
            /\ calculateConfidenceScore(row.sequence)[1] = 59

(***************************************************************************)
(* C16.  The confidence_score of a Motif row is the mean of the            *)
(* per-residue confidence of all 15 residues of its fragment (kept as      *)
(* total and count), not of the matched text: all Motif rows of one        *)
(* fragment carry the same confidence.                                     *)
(***************************************************************************)
RECURSIVE MarginSum(_)
MarginSum(sequence) ==
    IF sequence = <<>> THEN 0
    ELSE Margin(propensities[Head(sequence)]) + MarginSum(Tail(sequence))

C16_ConfidenceOverFragment ==
    \A r \in active :
        \A motif \in JustInserted(r, "INSERT_MOTIF") :
            LET fragment == FragmentRowOf(r, motif.fragment_id)
            IN  /\ motif.confidence_score.length = 15
                /\ motif.confidence_score.total = MarginSum(fragment.sequence)
                /\ \A other \in InsertedMotifs(r) :
                      other.fragment_id = motif.fragment_id
                      => other.confidence_score = motif.confidence_score

C16_Witness ==
    \E r \in active :
        \E m1, m2 \in InsertedMotifs(r) :
            /\ m1.fragment_id = m2.fragment_id
            /\ m1.start_position # m2.start_position
            /\ m1.confidence_score = m2.confidence_score
            /\ m1.end_position - m1.start_position < 15

(***************************************************************************)
(* C17.  For every fragment of a run and every catalog pattern at most one *)
(* Motif row is inserted; the row is the leftmost occurrence of the        *)
(* pattern in the fragment; and once the scan of a fragment is over, every *)
(* pattern that occurs in it has its row.  The same holds for the run that *)
(* follows another run.                                                    *)
(***************************************************************************)
Occurrences(p, f) == {j \in 0..(Len(f) - 1) : MatchLenAt(p, f, j) > 0}

\* The fragments of run r whose scan is over: a later fragment was inserted
\* or the loop has ended.
Scanned(r) ==
    {f \in InsertedFragments(r) :
        \/ LoopDone(r)
        \/ \E g \in InsertedFragments(r) : g.fragment_id > f.fragment_id}

C17_OneLeftmostMatch ==
    \A r \in active :
        /\ \A j, k \in Succeeded(r, "INSERT_MOTIF") :
              (/\ Log(r)[j].row.fragment_id = Log(r)[k].row.fragment_id
               /\ Log(r)[j].row.motif_type = Log(r)[k].row.motif_type)
              => j = k
        /\ \A row \in InsertedMotifs(r) :
              LET f == FragmentRowOf(r, row.fragment_id).sequence
                  p == PatternOf(row.motif_type)
              IN  /\ row.start_position \in Occurrences(p, f)
                  /\ \A j \in Occurrences(p, f) : row.start_position <= j
                  /\ row.end_position
                        = row.start_position + MatchLenAt(p, f, row.start_position)
        /\ \A f \in Scanned(r) : \A p \in 1..Len(motifs) :
              Occurrences(p, f.sequence) # {} =>
                 \E row \in InsertedMotifs(r) :
                    /\ row.fragment_id = f.fragment_id
                    /\ row.motif_type = motifs[p].name

\* The second of two successive runs has scanned a fragment that holds two
\* occurrences of a pattern, as the first run did, and inserted its row.
C17_Witness ==
    /\ Returned(1)
    /\ \E row1 \in InsertedMotifs(1), row2 \in InsertedMotifs(2) :
          LET f == FragmentRowOf(2, row2.fragment_id).sequence
              p == PatternOf(row2.motif_type)
          IN  /\ row1.motif_type = row2.motif_type
              /\ Cardinality(Occurrences(p, f)) >= 2
              /\ Cardinality(
                    Occurrences(p, FragmentRowOf(1, row1.fragment_id).sequence)) >= 2
              /\ Returned(2)

(***************************************************************************)
(* C18.  Every inserted Motif row records the catalog pattern's name and   *)
(* its category label, with start, end and confidence.  Of a Motif row's   *)
(* columns only motif_type holds a label: motif_pattern holds the matched  *)
(* residues and the others hold numbers.                                   *)
(***************************************************************************)
LabelColumns == {"motif_type"}

C18_NameAndCategory ==
    \A r \in active : \A row \in InsertedMotifs(r) :
        \E p \in 1..Len(motifs) :
            /\ \E col \in LabelColumns : row[col] = motifs[p].name
            /\ \E col \in LabelColumns : row[col] = motifs[p].type
            /\ {"start_position", "end_position", "confidence_score"}
                  \subseteq DOMAIN row

(***************************************************************************)
(* C19.  Once the first annotation has returned, no later step (of the     *)
(* PUT, of the reader, of the annotation of another protein) changes a     *)
(* persisted Fragment or Motif row of its protein, nor the protein's       *)
(* molecular_weight, sequence_length or sequence_url.                      *)
(***************************************************************************)
Structural(p) ==
    [protein_id |-> p.protein_id,
     molecular_weight |-> p.molecular_weight,
     sequence_length |-> p.sequence_length,
     sequence_url |-> p.sequence_url]

C19_CreateOnce ==
    [][Returned(1) =>
         /\ RowsOfRun(1, db).fragments \subseteq db'.fragments
         /\ RowsOfRun(1, db).motifs \subseteq db'.motifs
         /\ \A p \in RowsOfRun(1, db).proteins :
               \E q \in db'.proteins : Structural(q) = Structural(p)]_vars

(***************************************************************************)
(* C20.  The statements of a run come in the order BEGIN, protein insert,  *)
(* sequence_url update, fragment and motif writes, COMMIT.  A run that     *)
(* failed ends RolledBack: no session of the store shows a row it wrote.   *)
(* No run ends both Committed and RolledBack.                              *)
(***************************************************************************)
C20_Order ==
    \A r \in active :
        /\ Log(r) # <<>> => Log(r)[1].op = "BEGIN" /\ Issued(r, "BEGIN") = {1}
        /\ \A k \in Issued(r, "INSERT_PROTEIN") :
              \E j \in Succeeded(r, "BEGIN") : j < k
        /\ \A k \in Issued(r, "UPDATE_PROTEIN") :
              \E j \in Succeeded(r, "INSERT_PROTEIN") : j < k
        /\ \A k \in Issued(r, "INSERT_FRAGMENT") :
              \E j \in Succeeded(r, "UPDATE_PROTEIN") : j < k
        /\ \A k \in Issued(r, "COMMIT") :
              /\ k = Len(Log(r)) \/ (~Log(r)[k].ok /\ k + 1 = Len(Log(r)))
              /\ \A j \in 1..(k - 1) : Log(r)[j].ok /\ Log(r)[j].op # "COMMIT"
              /\ Cardinality(Succeeded(r, "INSERT_FRAGMENT"))
                    = Cardinality(WindowStarts(Len(Sequence(r))))

Committed(r) == Returned(r) /\ Succeeded(r, "COMMIT") # {}
Failed(r) ==
    run[r].pc = "done" /\ Log(r) # <<>> /\ run[r].outcome # "returned"
RolledBack(r) ==
    /\ Failed(r)
    /\ \A c \in Sessions : RowsOfRun(r, Shown(c)) = NoRows

C20_RunStateMachine ==
    /\ C20_Order
    /\ \A r \in active :
          /\ Failed(r) => RolledBack(r)
          /\ ~(Committed(r) /\ RolledBack(r))

(***************************************************************************)
(* C21.  Within a run every Fragment row is inserted with the protein's    *)
(* identifier as parent, its url update follows at once, its Motif rows    *)
(* follow with its identifier, and the next Fragment is inserted only      *)
(* after all of them.  When the run has returned from COMMIT, every stored *)
(* Fragment of the protein has the url built from its own identifier and   *)
(* the Protein has the sequence_url built from its own identifier.         *)
(***************************************************************************)
\* The index of the last fragment insert of run r before statement k, or 0.
LastFragmentBefore(r, k) ==
    LET before == {j \in Succeeded(r, "INSERT_FRAGMENT") : j < k}
    IN  IF before = {} THEN 0
        ELSE CHOOSE j \in before : \A i \in before : i <= j

C21_Order ==
    \A r \in active :
        /\ \A k \in Succeeded(r, "INSERT_FRAGMENT") :
              /\ Log(r)[k].row.protein_id = run[r].protein_id
              /\ k < Len(Log(r)) => Log(r)[k + 1].op = "UPDATE_FRAGMENT"
              /\ LET j == LastFragmentBefore(r, k)
                 IN  j # 0 =>
                       Cardinality({m \in Succeeded(r, "INSERT_MOTIF") : j < m /\ m < k})
                         = Cardinality({p \in 1..Len(motifs) :
                              Occurrences(p, Log(r)[j].row.sequence) # {}})
        /\ \A k \in Issued(r, "UPDATE_FRAGMENT") :
              k - 1 \in Succeeded(r, "INSERT_FRAGMENT")
        /\ \A k \in Issued(r, "INSERT_MOTIF") :
              LET j == LastFragmentBefore(r, k)
              IN  /\ j # 0
                  /\ j + 1 \in Succeeded(r, "UPDATE_FRAGMENT")
                  /\ Log(r)[k].ok =>
                        Log(r)[k].row.fragment_id = Log(r)[j].row.fragment_id
        /\ \A c \in Sessions :
              /\ \A f \in Visible(c).fragments :
                    f.url \in {NULL, fragmentUrlOf(f.fragment_id)}
              /\ \A q \in Visible(c).proteins :
                    q.sequence_url \in {NULL, sequenceUrlOf(q.protein_id)}

C21_UrlsSetAtCommit ==
    /\ C21_Order
    /\ \A r \in active :
          Returned(r) =>
            /\ \A f \in RowsOfRun(r, db).fragments :
                  f.url = fragmentUrlOf(f.fragment_id) /\ f.url # NULL
            /\ \A q \in RowsOfRun(r, db).proteins :
                  q.sequence_url = sequenceUrlOf(q.protein_id) /\ q.sequence_url # NULL

(***************************************************************************)
(* C22.  When two runs for different proteins interleave, a run whose own  *)
(* statements all succeeded and that has returned has its whole aggregate  *)
(* stored (its Protein, one Fragment per window, one Motif per pattern     *)
(* that occurs), whatever the other run did; and no row of a run that has  *)
(* ended in an error is stored, whatever the other run committed.          *)
(***************************************************************************)
AggregateStored(r) ==
    /\ Cardinality(RowsOfRun(r, db).proteins) = 1
    /\ {f.start_position : f \in RowsOfRun(r, db).fragments}
          = WindowStarts(Len(Sequence(r)))
    /\ \A f \in RowsOfRun(r, db).fragments :
          {m.motif_type : m \in {n \in db.motifs : n.fragment_id = f.fragment_id}}
            = {motifs[p].name :
                 p \in {q \in 1..Len(motifs) : Occurrences(q, f.sequence) # {}}}

C22_RunsStayScoped ==
    \A r \in active :
        /\ Returned(r) /\ AllSucceeded(r) => AggregateStored(r)
        /\ Failed(r) => RowsOfRun(r, db) = NoRows

(***************************************************************************)
(* C23.  predictSecondaryStructure gives no label to a symbol outside the  *)
(* alphabet: applied to a sequence that holds one it throws.  A run never  *)
(* stores a Fragment that holds such a symbol, nor a label string with a   *)
(* label for one: when the classifier throws on a window, the run goes to  *)
(* its catch block without another statement.                              *)
(***************************************************************************)
Labels == {"H", "E", "C"}
OutsideInputs == {"badsymbol", "badtail"}

ClassifierRefuses ==
    \A name \in OutsideInputs :
        LET s == SeqOf(name)
        IN  /\ \E k \in 1..Len(s) : s[k] \notin Alphabet
            /\ \A k \in 1..Len(s) :
                  s[k] \notin Alphabet => predictSecondaryStructure(s)[k] \notin Labels

C23_UnknownSymbolIsError ==
    /\ ClassifierRefuses
    /\ \A r \in active :
          /\ \A row \in InsertedFragments(r) :
                \A k \in 1..Len(row.sequence) :
                    /\ row.sequence[k] \in Alphabet
                    /\ row.secondary_structure[k] \in Labels
          /\ run[r].pc \in {"INSERT_FRAGMENT", "UPDATE_FRAGMENT", "INSERT_MOTIF"} =>
                \A k \in 1..Len(Fragment(r)) : Fragment(r)[k] \in Alphabet
          /\ run[r].pc # "idle" /\ BadSymbolInWindow(Sequence(r)) =>
                Issued(r, "COMMIT") = {}

\* The classifier threw on the second window of a sequence whose first window
\* was stored: the run is in its catch block though no statement failed.
C23_Witness ==
    \E r \in active :
        /\ run[r].input = "badsymbol"
        /\ run[r].pc = "ROLLBACK"
        /\ AllSucceeded(r)
        /\ Cardinality(InsertedFragments(r)) = 1
        /\ Log(r)[Len(Log(r))].op = "UPDATE_FRAGMENT"

(***************************************************************************)
(* C24.  When the annotation of a valid sequence has committed and the     *)
(* download of its protein has been answered from the fragments in the     *)
(* order of their insertion, the downloaded string is the sequence that    *)
(* was annotated.                                                          *)
(***************************************************************************)
InInsertionOrder(rows) ==
    \A j, k \in 1..Len(rows) : j < k => rows[j].fragment_id < rows[k].fragment_id

C24_DownloadRoundTrip ==
    (/\ download.pc = "done"
     /\ download.status = 200
     /\ Returned(1)
     /\ AllSucceeded(1)
     /\ ~InvalidInput(Sequence(1))
     /\ InInsertionOrder(download.rows))
    => download.body = Sequence(1)

(***************************************************************************)
(* C25.  A request to GET /api/proteins that has ended was answered: with  *)
(* 400 when its parameters were refused, with 500 when the store failed,   *)
(* with 200 otherwise.                                                     *)
(***************************************************************************)
C25_ListAlwaysAnswers ==
    listing.pc = "done" =>
        listing.status =
            CASE listing.error = "BadRequestError" -> 400
              [] listing.error = "StorageError" -> 500
              [] OTHER -> 200

(***************************************************************************)
(* C26.  A POST /api/proteins request with a valid sequence never ends in  *)
(* an error because its body has no name: it is refused only for a name or *)
(* a description that is too long, with 400, and otherwise the run starts  *)
(* under the name given or generated.                                      *)
(***************************************************************************)
C26_OmittedNameAccepted ==
    \A r \in active :
        (/\ run[r].entry = "POST /api/proteins"
         /\ ~InvalidInput(Sequence(r)))
        => /\ run[r].outcome # "TypeError"
           /\ run[r].pc = "done" /\ Log(r) = <<>> =>
                 run[r].outcome = "BadRequestError" /\ run[r].status = 400

====
